---- MODULE Spec2Model ----
(***************************************************************************)
(* Gauss-Newton optimizer (gtsam/nonlinear/GaussNewtonOptimizer.h): the    *)
(* immutable optimizer objects, their construction, update, clone and      *)
(* iterate operations, over a heap of shared graph / values / parameter    *)
(* objects addressed by reference.                                         *)
(*                                                                         *)
(* The header declares iterate() and delegates to the NonlinearOptimizer   *)
(* base class; neither body is in the header.  Those parts are modelled    *)
(* from the written specification (sections 3, 4.2, 6 and 7) and are       *)
(* marked as such where they are defined.                                  *)
(***************************************************************************)
EXTENDS Integers, Sequences, FiniteSets, TLC

VARIABLES
    gH,       \* heap of NonlinearFactorGraph objects: reference -> content
    vH,       \* heap of Values objects: reference -> content
    cH,       \* heap of parameter objects: reference -> content
    opts,     \* the optimizer objects created so far, in creation order
    last,     \* the most recent call: operation, receiver, arguments, outcome
    parent,   \* history: the call that created each object (operation, receiver,
              \* and for a constructor the caller's objects it was given)
    steps,    \* history: successful iterate calls on each object's derivation path
    own,      \* history: fields of each object that descend from a private copy
    snap,     \* history: the contents each object referenced when it was created
    passed,   \* history: the caller's objects it has passed to a constructor or update
    muts      \* number of changes the caller made to objects it still holds

vars == <<gH, vH, cH, opts, last, parent, steps, own, snap, passed, muts>>

----------------------------------------------------------------------------
(* Bounds of the model *)

MaxOpts == 3
MaxRoots == 1
MaxMutations == 1

----------------------------------------------------------------------------
(* References *)

Null == 0

Keys == {1, 2}

Fields == {"graph", "values", "config"}

----------------------------------------------------------------------------
(* Factors, graphs and values (external collaborators, section 6) *)

Prior(k, t) == [type |-> "Prior", a |-> k, b |-> k, d |-> t]
Between(k1, k2, dd) == [type |-> "Between", a |-> k1, b |-> k2, d |-> dd]
AbsFactor(k) == [type |-> "Abs", a |-> k, b |-> k, d |-> 0]

Abs(n) == IF n < 0 THEN -n ELSE n
Sign(n) == IF n < 0 THEN -1 ELSE IF n > 0 THEN 1 ELSE 0

\* the residual of one factor at the assignment x
Residual(f, x) ==
    CASE f.type = "Prior" -> x[f.a] - f.d
      [] f.type = "Between" -> x[f.b] - x[f.a] - f.d
      [] f.type = "Abs" -> Abs(x[f.a])

RECURSIVE SumSq(_, _)
SumSq(fs, x) ==
    IF fs = {} THEN 0
    ELSE LET f == CHOOSE g \in fs : TRUE
         IN Residual(f, x) * Residual(f, x) + SumSq(fs \ {f}, x)

\* errorAt(values): the total objective of graph g at x (sum of squared residuals)
GraphError(g, x) == SumSq(g, x)

\* the variables a graph's factors mention
Variables(g) == UNION {{f.a, f.b} : f \in g}

\* a factor whose Jacobian is undefined at x
Undefined(f, x) == f.type = "Abs" /\ x[f.a] = 0

\* the linear factor  sum_k c[k] * delta[k] = b  of f around x
LinOf(f, x) ==
    CASE f.type = "Prior" ->
           [c |-> [k \in Keys |-> IF k = f.a THEN 1 ELSE 0], b |-> f.d - x[f.a]]
      [] f.type = "Between" ->
           [c |-> [k \in Keys |-> IF k = f.a THEN -1 ELSE IF k = f.b THEN 1 ELSE 0],
            b |-> f.d - (x[f.b] - x[f.a])]
      [] f.type = "Abs" ->
           [c |-> [k \in Keys |-> IF k = f.a THEN Sign(x[f.a]) ELSE 0],
            b |-> 0 - Abs(x[f.a])]

Linearize(g, x) == {LinOf(f, x) : f \in g}

LinearVariables(sys) == {k \in Keys : \E f \in sys : f.c[k] # 0}

RECURSIVE SetToSeq(_)
SetToSeq(S) ==
    IF S = {} THEN <<>>
    ELSE LET m == CHOOSE k \in S : \A j \in S : k <= j
         IN <<m>> \o SetToSeq(S \ {m})

\* computeOrdering(linearGraph): an ordering of the variables of the linear graph
ComputeOrdering(sys) == SetToSeq(LinearVariables(sys))

Range(s) == {s[i] : i \in 1..Len(s)}

\* the ordering covers exactly the graph's variables, each once
OrderingMatches(ord, g) ==
    Range(ord) = Variables(g) /\ Len(ord) = Cardinality(Variables(g))

\* g with variable k removed by substituting the pivot row p
ReduceRow(g, p, k) ==
    LET m == g.c[k] * p.c[k]
    IN [c |-> [j \in Keys |-> g.c[j] - m * p.c[j]], b |-> g.b - m * p.b]

ZeroRow(f) == \A k \in Keys : f.c[k] = 0

\* eliminate the variables ord[i..] from sys one at a time
RECURSIVE EliminateFrom(_, _, _, _)
EliminateFrom(sys, ord, i, conds) ==
    IF i > Len(ord) THEN [ok |-> TRUE, conds |-> conds]
    ELSE LET k == ord[i]
             involved == {f \in sys : f.c[k] # 0}
         IN IF involved = {} THEN [ok |-> FALSE, conds |-> conds]
            ELSE LET p == CHOOSE f \in involved : TRUE
                     reduced == {ReduceRow(g, p, k) : g \in involved \ {p}}
                     rest == (sys \ involved) \cup {r \in reduced : ~ZeroRow(r)}
                 IN EliminateFrom(rest, ord, i + 1, Append(conds, [k |-> k, p |-> p]))

RECURSIVE DotOthers(_, _, _, _)
DotOthers(p, k, delta, ks) ==
    IF ks = {} THEN 0
    ELSE LET j == CHOOSE q \in ks : TRUE
         IN (IF j = k THEN 0 ELSE p.c[j] * delta[j]) + DotOthers(p, k, delta, ks \ {j})

\* back-substitution through the conditionals, last eliminated first
RECURSIVE BackSubstitute(_, _, _)
BackSubstitute(conds, i, delta) ==
    IF i = 0 THEN delta
    ELSE LET k == conds[i].k
             p == conds[i].p
             dk == p.c[k] * (p.b - DotOthers(p, k, delta, Keys))
         IN BackSubstitute(conds, i - 1, [delta EXCEPT ![k] = dk])

ZeroDelta == [k \in Keys |-> 0]

\* retract(delta): the manifold update, vector addition for these variables
Retract(x, delta) == [k \in Keys |-> x[k] + delta[k]]

----------------------------------------------------------------------------
(* Objects the caller owns before any optimizer exists *)

\* well-posed in two variables; singular (no anchor); not differentiable at x1 = 0
GA == {Prior(1, 5), Between(1, 2, 1)}
GB == {Between(1, 2, 1)}
GC == {AbsFactor(1)}

VA == [k \in Keys |-> 0]
VB == [k \in Keys |-> IF k = 1 THEN 2 ELSE 5]

\* GaussNewtonParams(): elimination(MULTIFRONTAL), factorization(LDL), empty ordering
GaussNewtonParams ==
    [kind |-> "GaussNewton", elimination |-> "MULTIFRONTAL",
     factorization |-> "LDL", ordering |-> <<>>]

ParamsTwo ==
    [GaussNewtonParams EXCEPT !.elimination = "SEQUENTIAL", !.factorization = "QR",
                              !.ordering = <<2, 1>>]

\* a NonlinearOptimizerParams that is not a GaussNewtonParams
OtherParams ==
    [kind |-> "Other", elimination |-> "none", factorization |-> "none", ordering |-> <<>>]

CallerGraphs == <<GA, GB, GC>>
CallerValues == <<VB>>
CallerParams == <<GaussNewtonParams, ParamsTwo, OtherParams>>

GraphRefs == 1..Len(CallerGraphs)
ValueRefs == 1..Len(CallerValues)
ParamRefs == 1..Len(CallerParams)
GNParamRefs == {p \in ParamRefs : CallerParams[p].kind = "GaussNewton"}

----------------------------------------------------------------------------
(* NonlinearOptimizer base class.  Its constructors are not in the header;  *)
(* they are modelled from the specification: section 3 (the fields, and     *)
(* error being the objective at the state's own graph and values) and       *)
(* section 4.3 (an omitted argument leaves the field shared, unchanged).    *)

\* NonlinearOptimizer(graph, values, params)
NonlinearOptimizerNew(gh, vh, graph, values, params) ==
    [graph_ |-> graph, values_ |-> values, params_ |-> params,
     error_ |-> GraphError(gh[graph], vh[values]), iterations_ |-> 0]

\* NonlinearOptimizer(graph, values, params, error, iterations)
NonlinearOptimizerFull(graph, values, params, error, iterations) ==
    [graph_ |-> graph, values_ |-> values, params_ |-> params,
     error_ |-> error, iterations_ |-> iterations]

\* NonlinearOptimizer(original, newGraph, newValues, newParams)
NonlinearOptimizerUpdate(gh, vh, original, newGraph, newValues, newParams) ==
    LET g == IF newGraph # Null THEN newGraph ELSE original.graph_
        v == IF newValues # Null THEN newValues ELSE original.values_
    IN [graph_ |-> g, values_ |-> v,
        params_ |-> IF newParams # Null THEN newParams ELSE original.params_,
        error_ |-> IF newGraph # Null \/ newValues # Null
                   THEN GraphError(gh[g], vh[v]) ELSE original.error_,
        iterations_ |-> original.iterations_]

\* the base part of an optimizer record
BasePart(o) ==
    [graph_ |-> o.graph_, values_ |-> o.values_, params_ |-> o.params_,
     error_ |-> o.error_, iterations_ |-> o.iterations_]

\* a derived object: its base part and the Gauss-Newton params handle
WithGNParams(base, gn) ==
    [graph_ |-> base.graph_, values_ |-> base.values_, params_ |-> base.params_,
     gnParams_ |-> gn, error_ |-> base.error_, iterations_ |-> base.iterations_]

----------------------------------------------------------------------------
(* GaussNewtonOptimizer *)

\* new T(obj): a fresh heap object holding a copy of heap[ref]
NoCopy(heap, ref) == [heap |-> heap, ref |-> ref]
NewCopy(heap, ref) == [heap |-> Append(heap, heap[ref]), ref |-> Len(heap) + 1]

\* boost::dynamic_pointer_cast<GaussNewtonParams>(newParams)
DynamicPointerCast(ch, p) ==
    IF p # Null /\ ch[p].kind = "GaussNewton" THEN p ELSE Null

\* GaussNewtonOptimizer(const SharedGraph&, const SharedValues&, const SharedGNParams&)
GaussNewtonOptimizerShared(gh, vh, graph, values, params) ==
    WithGNParams(NonlinearOptimizerNew(gh, vh, graph, values, params), params)

\* GaussNewtonOptimizer(graph, values, params, error, iterations)
GaussNewtonOptimizerNoCount(graph, values, params, error, iterations) ==
    WithGNParams(NonlinearOptimizerFull(graph, values, params, error, 0), params)
GaussNewtonOptimizerFull(graph, values, params, error, iterations) ==
    WithGNParams(NonlinearOptimizerFull(graph, values, params, error, iterations), params)

\* GaussNewtonOptimizer(original, newGraph, newValues, newParams)
GaussNewtonOptimizerUpdateStaleError(gh, vh, original, newGraph, newValues, newParams) ==
    [WithGNParams(
        NonlinearOptimizerUpdate(gh, vh, BasePart(original), newGraph, newValues, newParams),
        IF newParams # Null THEN newParams ELSE original.gnParams_)
     EXCEPT !.error_ = original.error_]
GaussNewtonOptimizerUpdateResetCount(gh, vh, original, newGraph, newValues, newParams) ==
    [WithGNParams(
        NonlinearOptimizerUpdate(gh, vh, BasePart(original), newGraph, newValues, newParams),
        IF newParams # Null THEN newParams ELSE original.gnParams_)
     EXCEPT !.iterations_ = 0]
GaussNewtonOptimizerUpdate(gh, vh, original, newGraph, newValues, newParams) ==
    WithGNParams(
        NonlinearOptimizerUpdate(gh, vh, BasePart(original), newGraph, newValues, newParams),
        IF newParams # Null THEN newParams ELSE original.gnParams_)

\* update(newGraph, newValues, newParams)
updateBaseUncast(gh, vh, ch, self, newGraph, newValues, newParams) ==
    WithGNParams(
        NonlinearOptimizerUpdate(gh, vh, BasePart(self), newGraph, newValues, newParams),
        IF DynamicPointerCast(ch, newParams) # Null
        THEN DynamicPointerCast(ch, newParams) ELSE self.gnParams_)
update(gh, vh, ch, self, newGraph, newValues, newParams) ==
    GaussNewtonOptimizerUpdate(gh, vh, self, newGraph, newValues,
                               DynamicPointerCast(ch, newParams))

\* clone(): new GaussNewtonOptimizer(*this)
cloneResetCount(self) == [self EXCEPT !.iterations_ = 0]
clone(self) == self

\* a const method returns a new object and leaves the receiver as it is
EmplaceInPlace(os, self, o) == [os EXCEPT ![self] = o]
Emplace(os, self, o) == Append(os, o)

----------------------------------------------------------------------------
(* iterate().  Declared in the header, defined elsewhere; modelled from     *)
(* section 4.2 (the seven steps, in their order) and section 7 (the three   *)
(* failures, surfaced at once and never retried).                           *)

Failure(kind, x, ord) ==
    [status |-> kind, produced |-> FALSE, values |-> x, error |-> 0,
     ordering |-> ord, attempts |-> 1]

iterateGarbageOnFailure(gh, vh, ch, self) ==
    LET g == gh[self.graph_]
        x == vh[self.values_]
        p == ch[self.gnParams_]
    IN IF \E f \in g : Undefined(f, x)
       THEN Failure("LinearizationFailure", x, <<>>)
       ELSE LET sys == Linearize(g, x)
            IN IF p.ordering # <<>> /\ ~OrderingMatches(p.ordering, g)
               THEN Failure("ConfigurationMismatch", x, <<>>)
               ELSE LET ord == IF p.ordering # <<>> THEN p.ordering
                               ELSE ComputeOrdering(sys)
                        el == EliminateFrom(sys, ord, 1, <<>>)
                        delta == BackSubstitute(el.conds, Len(el.conds), ZeroDelta)
                        nx == Retract(x, delta)
                    IN [status |-> IF el.ok THEN "ok" ELSE "SingularSystem",
                        produced |-> TRUE, values |-> nx,
                        error |-> GraphError(g, nx), ordering |-> ord, attempts |-> 1]
iterateIgnoreOrdering(gh, vh, ch, self) ==
    LET g == gh[self.graph_]
        x == vh[self.values_]
        sys == Linearize(g, x)
        ord == ComputeOrdering(sys)
        el == EliminateFrom(sys, ord, 1, <<>>)
    IN IF \E f \in g : Undefined(f, x) THEN Failure("LinearizationFailure", x, <<>>)
       ELSE IF ~el.ok THEN Failure("SingularSystem", x, ord)
       ELSE LET nx == Retract(x, BackSubstitute(el.conds, Len(el.conds), ZeroDelta))
            IN [status |-> "ok", produced |-> TRUE, values |-> nx,
                error |-> GraphError(g, nx), ordering |-> ord, attempts |-> 1]
iterate(gh, vh, ch, self) ==
    LET g == gh[self.graph_]
        x == vh[self.values_]
        p == ch[self.gnParams_]
    IN IF \E f \in g : Undefined(f, x)
       THEN Failure("LinearizationFailure", x, <<>>)
       ELSE LET sys == Linearize(g, x)
            IN IF p.ordering # <<>> /\ ~OrderingMatches(p.ordering, g)
               THEN Failure("ConfigurationMismatch", x, <<>>)
               ELSE LET ord == IF p.ordering # <<>> THEN p.ordering
                               ELSE ComputeOrdering(sys)
                        el == EliminateFrom(sys, ord, 1, <<>>)
                    IN IF ~el.ok THEN Failure("SingularSystem", x, ord)
                       ELSE LET delta == BackSubstitute(el.conds, Len(el.conds), ZeroDelta)
                                nx == Retract(x, delta)
                            IN [status |-> "ok", produced |-> TRUE, values |-> nx,
                                error |-> GraphError(g, nx), ordering |-> ord,
                                attempts |-> 1]

----------------------------------------------------------------------------
(* The state machine *)

Call(op, src, new, status, ord, attempts, ng, nv, np) ==
    [op |-> op, src |-> src, new |-> new, status |-> status, ordering |-> ord,
     attempts |-> attempts, ng |-> ng, nv |-> nv, np |-> np]

Contents(gh, vh, ch, o) ==
    [graph |-> gh[o.graph_], values |-> vh[o.values_], config |-> ch[o.gnParams_]]

Pass(g, v, p) ==
    [f \in Fields |->
        passed[f] \cup ({IF f = "graph" THEN g ELSE IF f = "values" THEN v ELSE p} \ {Null})]

Made(op, src, ng, nv, np) == [op |-> op, src |-> src, ng |-> ng, nv |-> nv, np |-> np]

NumRoots == Cardinality({i \in 1..Len(parent) : parent[i].src = Null})

Init ==
    /\ gH = CallerGraphs
    /\ vH = CallerValues
    /\ cH = CallerParams
    /\ opts = <<>>
    /\ last = Call("none", Null, Null, "ok", <<>>, 0, Null, Null, Null)
    /\ parent = <<>>
    /\ steps = <<>>
    /\ own = <<>>
    /\ snap = <<>>
    /\ passed = [f \in Fields |-> {}]
    /\ muts = 0

\* GaussNewtonOptimizer(const NonlinearFactorGraph&, const Values&, const GaussNewtonParams&)
ConstructPlain(g, v, p) ==
    /\ Len(opts) < MaxOpts
    /\ NumRoots < MaxRoots
    /\ LET ng == NewCopy(gH, g)
           nv == NewCopy(vH, v)
           np == NewCopy(cH, p)
           o == GaussNewtonOptimizerShared(ng.heap, nv.heap, ng.ref, nv.ref, np.ref)
       IN /\ gH' = ng.heap
          /\ vH' = nv.heap
          /\ cH' = np.heap
          /\ opts' = Append(opts, o)
          /\ snap' = Append(snap, Contents(ng.heap, nv.heap, np.heap, o))
          /\ last' = Call("constructPlain", Null, Len(opts) + 1, "ok", <<>>, 0, g, v, p)
    /\ parent' = Append(parent, Made("constructPlain", Null, g, v, p))
    /\ steps' = Append(steps, 0)
    /\ own' = Append(own, Fields)
    /\ passed' = Pass(g, v, p)
    /\ UNCHANGED muts

\* GaussNewtonOptimizer(const SharedGraph&, const SharedValues&, const SharedGNParams&)
ConstructShared(g, v, p) ==
    /\ Len(opts) < MaxOpts
    /\ NumRoots < MaxRoots
    /\ LET o == GaussNewtonOptimizerShared(gH, vH, g, v, p)
       IN /\ opts' = Append(opts, o)
          /\ snap' = Append(snap, Contents(gH, vH, cH, o))
    /\ last' = Call("constructShared", Null, Len(opts) + 1, "ok", <<>>, 0, g, v, p)
    /\ parent' = Append(parent, Made("constructShared", Null, g, v, p))
    /\ steps' = Append(steps, 0)
    /\ own' = Append(own, {})
    /\ passed' = Pass(g, v, p)
    /\ UNCHANGED <<gH, vH, cH, muts>>

\* iterate() on object i
Step(i) ==
    /\ i \in 1..Len(opts)
    /\ LET self == opts[i]
           r == iterate(gH, vH, cH, self)
           nv == Len(vH) + 1
           o == GaussNewtonOptimizerFull(self.graph_, nv, self.gnParams_,
                                         r.error, self.iterations_ + 1)
       IN IF r.produced
          THEN /\ Len(opts) < MaxOpts
               /\ vH' = Append(vH, r.values)
               /\ opts' = Emplace(opts, i, o)
               /\ snap' = Append(snap, Contents(gH, vH', cH, o))
               /\ parent' = Append(parent, Made("step", i, Null, Null, Null))
               /\ steps' = Append(steps, steps[i] + 1)
               /\ own' = Append(own, own[i] \cup {"values"})
               /\ last' = Call("step", i, Len(opts) + 1, r.status, r.ordering,
                               r.attempts, Null, Null, Null)
          ELSE /\ last' = Call("step", i, Null, r.status, r.ordering,
                               r.attempts, Null, Null, Null)
               /\ UNCHANGED <<vH, opts, snap, parent, steps, own>>
    /\ UNCHANGED <<gH, cH, passed, muts>>

\* update(newGraph, newValues, newParams) on object i
Update(i, ng, nv, np) ==
    /\ i \in 1..Len(opts)
    /\ Len(opts) < MaxOpts
    /\ LET o == update(gH, vH, cH, opts[i], ng, nv, np)
       IN /\ opts' = Emplace(opts, i, o)
          /\ snap' = Append(snap, Contents(gH, vH, cH, o))
    /\ parent' = Append(parent, Made("update", i, Null, Null, Null))
    /\ steps' = Append(steps, steps[i])
    /\ own' = Append(own, own[i] \ ({"graph" : x \in {ng} \ {Null}}
                                     \cup {"values" : x \in {nv} \ {Null}}
                                     \cup {"config" : x \in {DynamicPointerCast(cH, np)} \ {Null}}))
    /\ last' = Call("update", i, Len(opts) + 1, "ok", <<>>, 0, ng, nv, np)
    /\ passed' = Pass(ng, nv, np)
    /\ UNCHANGED <<gH, vH, cH, muts>>

\* clone() on object i
Clone(i) ==
    /\ i \in 1..Len(opts)
    /\ Len(opts) < MaxOpts
    /\ LET o == clone(opts[i])
       IN /\ opts' = Emplace(opts, i, o)
          /\ snap' = Append(snap, Contents(gH, vH, cH, o))
    /\ parent' = Append(parent, Made("clone", i, Null, Null, Null))
    /\ steps' = Append(steps, steps[i])
    /\ own' = Append(own, own[i])
    /\ last' = Call("clone", i, Len(opts) + 1, "ok", <<>>, 0, Null, Null, Null)
    /\ UNCHANGED <<gH, vH, cH, passed, muts>>

\* the caller changes an object it still holds a handle to
MutateGraph(g) ==
    /\ muts < MaxMutations
    /\ g \in passed["graph"]
    /\ gH' = [gH EXCEPT ![g] = CallerGraphs[(g % Len(CallerGraphs)) + 1]]
    /\ muts' = muts + 1
    /\ UNCHANGED <<vH, cH, opts, last, parent, steps, own, snap, passed>>

MutateValues(v) ==
    /\ muts < MaxMutations
    /\ v \in passed["values"]
    /\ vH' = [vH EXCEPT ![v] = VA]
    /\ muts' = muts + 1
    /\ UNCHANGED <<gH, cH, opts, last, parent, steps, own, snap, passed>>

MutateParams(p) ==
    /\ muts < MaxMutations
    /\ p \in passed["config"]
    /\ cH' = [cH EXCEPT ![p].ordering = <<1, 2>>]
    /\ muts' = muts + 1
    /\ UNCHANGED <<gH, vH, opts, last, parent, steps, own, snap, passed>>

OptRefs == 1..MaxOpts

Next ==
    \/ \E g \in GraphRefs, v \in ValueRefs, p \in GNParamRefs : ConstructPlain(g, v, p)
    \/ \E g \in GraphRefs, v \in ValueRefs, p \in GNParamRefs : ConstructShared(g, v, p)
    \/ \E i \in OptRefs : Step(i)
    \/ \E i \in OptRefs : Clone(i)
    \/ \E i \in OptRefs, ng \in {Null} \cup GraphRefs, nv \in {Null} \cup ValueRefs,
          np \in {Null} \cup ParamRefs : Update(i, ng, nv, np)

Spec == Init /\ [][Next]_vars

\* the same program with a caller that also changes the objects it passed in
NextShared ==
    \/ Next
    \/ \E g \in GraphRefs : MutateGraph(g)
    \/ \E v \in ValueRefs : MutateValues(v)
    \/ \E p \in ParamRefs : MutateParams(p)

SpecShared == Init /\ [][NextShared]_vars

----------------------------------------------------------------------------
(* Properties *)

Objs == 1..Len(opts)

Supplied(arg, old) == IF arg # Null THEN arg ELSE old

IsUpdate == last.op = "update"
IsStep == last.op = "step"

\* C1: update returns, for each of graph, values and config, the supplied argument
\* when one is given and otherwise the very reference the receiver holds.
C1_UpdateInstallsSupplied ==
    IsUpdate =>
        LET s == opts[last.src]
            n == opts[last.new]
        IN /\ n.graph_ = Supplied(last.ng, s.graph_)
           /\ n.values_ = Supplied(last.nv, s.values_)
           /\ n.gnParams_ = Supplied(last.np, s.gnParams_)
           /\ n.params_ = Supplied(last.np, s.params_)

\* C2: no call changes an existing optimizer object or what it references: every
\* object that exists before a step of the program is, with the contents of its
\* graph, values and config, the same after it.
C2_Immutable ==
    [][\A i \in Objs :
          /\ i \in 1..Len(opts')
          /\ opts'[i] = opts[i]
          /\ Contents(gH', vH', cH', opts[i]) = Contents(gH, vH, cH, opts[i])]_vars

C2_Witness ==
    /\ Len(opts) = 3
    /\ parent[2].src = 1 /\ parent[2].op = "step"
    /\ parent[3].src = 2 /\ parent[3].op = "update"
    /\ opts[3].graph_ # opts[2].graph_

\* C3: a successful iterate returns a new object whose iteration count is the
\* receiver's plus one and whose graph and params are the receiver's references;
\* the values are a new object.
C3_StepResult ==
    (IsStep /\ last.status = "ok") =>
        LET s == opts[last.src]
            n == opts[last.new]
        IN /\ n.iterations_ = s.iterations_ + 1
           /\ n.graph_ = s.graph_
           /\ n.params_ = s.params_
           /\ n.gnParams_ = s.gnParams_
           /\ n.values_ # s.values_

C3_Witness ==
    IsStep /\ last.status = "ok" /\ opts[last.src].iterations_ = 1

C5_CloneEquivalent ==
    \A i \in Objs : parent[i].op = "clone" => opts[i] = opts[parent[i].src]

C5_Witness ==
    \E c, j \in Objs :
        /\ parent[c].op = "clone" /\ opts[c] = opts[parent[c].src]
        /\ parent[j].src = c /\ parent[j].op = "step" /\ opts[j] # opts[c]

\* C6 (as stated): whatever a State references is fixed when it is constructed,
\* for both constructors: no later change by the caller is observable through it.
C6_AllFixed ==
    \A i \in Objs : Contents(gH, vH, cH, opts[i]) = snap[i]

\* C6 (amended): the fields that descend from the plain-object constructor's private
\* copies (or from the values a step created) keep the contents they had when the
\* object was created, whatever the caller later does to the objects it passed in.
C6_PrivateCopiesFixed ==
    \A i \in Objs : \A f \in own[i] : Contents(gH, vH, cH, opts[i])[f] = snap[i][f]

C6_Witness ==
    \E i \in Objs :
        /\ parent[i].op = "constructPlain"
        /\ cH[parent[i].np] # snap[i].config
        /\ Contents(gH, vH, cH, opts[i]) = snap[i]

\* the ordering of the receiver's params and its graph, for the last step
LastOrdering == cH[opts[last.src].gnParams_].ordering
LastGraph == gH[opts[last.src].graph_]
LastValues == vH[opts[last.src].values_]
LastMismatch == LastOrdering # <<>> /\ ~OrderingMatches(LastOrdering, LastGraph)
LastLinearizable == \A f \in LastGraph : ~Undefined(f, LastValues)

C8_FailureSurfaced ==
    [][(last'.op = "step" /\ last'.status # "ok" /\ last' # last) =>
          /\ last'.status \in {"ConfigurationMismatch", "LinearizationFailure",
                               "SingularSystem"}
          /\ last'.new = Null
          /\ last'.attempts = 1
          /\ opts' = opts /\ gH' = gH /\ vH' = vH /\ cH' = cH]_vars

C8_Witness ==
    IsStep /\ last.status = "SingularSystem" /\ Len(opts) = 2 /\ last.src = 2

C10_IterationsCountSteps ==
    \A i \in Objs : opts[i].iterations_ = steps[i]

C10_Witness ==
    \E i \in Objs :
        /\ parent[i].op = "update" /\ steps[i] = 1
        /\ opts[i].graph_ # opts[parent[i].src].graph_
        /\ opts[i].values_ # opts[parent[i].src].values_

====
